---- MODULE Spec2Model ----
(***************************************************************************)
(* B-Ball Metrics: the NBA data service (RealNBADataService), the NBA API  *)
(* client (NBAApiService) and the PER formula.                             *)
(*                                                                         *)
(* Numbers.  JavaScript numbers are modelled as extended rationals: a      *)
(* finite value is an exact fraction n/d in lowest terms, and the three    *)
(* non-finite IEEE values NaN, +Infinity and -Infinity are kept apart.     *)
(* Statistics are non-negative, so every zero that reaches a divisor is    *)
(* +0; the sign of zero is not tracked.  The inputs are chosen so that the *)
(* exact fraction and the double agree on every comparison made.           *)
(***************************************************************************)
EXTENDS Integers, Sequences, FiniteSets, Bags, TLC

(***************************************************************************)
(* Extended rational arithmetic (IEEE-754 special values included).        *)
(***************************************************************************)
Abs(x) == IF x < 0 THEN -x ELSE x

Gcd[a \in Nat, b \in Nat] == IF b = 0 THEN a ELSE Gcd[b, a % b]

\* the fraction n/d in lowest terms, d # 0
Fin[n \in Int, d \in Int] ==
    LET s == IF d < 0 THEN -1 ELSE 1
        g == Gcd[Abs(n), Abs(d)]
    IN  [k |-> "fin", n |-> (s * n) \div g, d |-> (s * d) \div g]

Num(i) == [k |-> "fin", n |-> i, d |-> 1]
NaN  == [k |-> "nan",  n |-> 0, d |-> 1]
PInf == [k |-> "pinf", n |-> 0, d |-> 1]
NInf == [k |-> "ninf", n |-> 0, d |-> 1]

\* the values of a JavaScript number
Number == [k : {"fin", "nan", "pinf", "ninf"}, n : Int, d : Nat]

IsFinite(x) == x.k = "fin"
IsNaN(x)    == x.k = "nan"
IsZero(x)   == x.k = "fin" /\ x.n = 0

\* -1, 0, 1 for a value that is not NaN
Sign(x) ==
    CASE x.k = "pinf" -> 1
      [] x.k = "ninf" -> -1
      [] OTHER -> IF x.n > 0 THEN 1 ELSE IF x.n < 0 THEN -1 ELSE 0

InfOfSign(s) == IF s > 0 THEN PInf ELSE NInf

\* -x
Neg[x \in Number] ==
    CASE x.k = "nan"  -> NaN
      [] x.k = "pinf" -> NInf
      [] x.k = "ninf" -> PInf
      [] OTHER -> [x EXCEPT !.n = -x.n]

\* x + y
Add[x \in Number, y \in Number] ==
    CASE x.k = "nan" \/ y.k = "nan" -> NaN
      [] x.k = "fin" /\ y.k = "fin" ->
            LET g == Gcd[x.d, y.d]
            IN  Fin[x.n * (y.d \div g) + y.n * (x.d \div g), (x.d \div g) * y.d]
      [] x.k = "fin" -> y
      [] y.k = "fin" -> x
      [] OTHER -> IF x.k = y.k THEN x ELSE NaN

\* x - y
Sub[x \in Number, y \in Number] == Add[x, Neg[y]]

\* x * y
Mul[x \in Number, y \in Number] ==
    CASE x.k = "nan" \/ y.k = "nan" -> NaN
      [] x.k = "fin" /\ y.k = "fin" ->
            LET g1 == Gcd[Abs(x.n), y.d]
                g2 == Gcd[Abs(y.n), x.d]
            IN  Fin[(x.n \div g1) * (y.n \div g2), (x.d \div g2) * (y.d \div g1)]
      [] OTHER -> IF Sign(x) * Sign(y) = 0 THEN NaN
                  ELSE InfOfSign(Sign(x) * Sign(y))

\* x / y, every zero divisor being +0
Div[x \in Number, y \in Number] ==
    CASE x.k = "nan" \/ y.k = "nan" -> NaN
      [] x.k # "fin" /\ y.k # "fin" -> NaN
      [] x.k # "fin" -> IF Sign(y) < 0 THEN Neg[x] ELSE x
      [] y.k # "fin" -> Num(0)
      [] y.n = 0 -> IF x.n = 0 THEN NaN ELSE InfOfSign(Sign(x))
      [] OTHER ->
            LET g1 == Gcd[Abs(x.n), Abs(y.n)]
                g2 == Gcd[x.d, y.d]
            IN  Fin[(x.n \div g1) * (y.d \div g2), (x.d \div g2) * (y.n \div g1)]

\* x < y; false when either side is NaN
Lt[x \in Number, y \in Number] ==
    CASE x.k = "nan" \/ y.k = "nan" -> FALSE
      [] x.k = "fin" /\ y.k = "fin" -> Sign(Sub[x, y]) < 0
      [] x.k = "pinf" -> FALSE
      [] y.k = "ninf" -> FALSE
      [] OTHER -> x.k # y.k \/ x.k = "fin"

\* Math.max and Math.min: NaN if either argument is NaN
MathMax[x \in Number, y \in Number] ==
    IF IsNaN(x) \/ IsNaN(y) THEN NaN ELSE IF Lt[x, y] THEN y ELSE x
MathMin[x \in Number, y \in Number] ==
    IF IsNaN(x) \/ IsNaN(y) THEN NaN ELSE IF Lt[y, x] THEN y ELSE x

\* floor of the fraction n/d, d > 0 (\div rounds towards minus infinity)
FloorDiv(n, d) == n \div d

\* Math.floor
MathFloor[x \in Number] == IF x.k = "fin" THEN Num(FloorDiv(x.n, x.d)) ELSE x

\* Math.round: floor(x + 1/2), ties towards +Infinity
MathRound[x \in Number] ==
    IF x.k = "fin" THEN Num(FloorDiv(2 * x.n + x.d, 2 * x.d)) ELSE x

\* Math.floor(x * 10) / 10: the digits behind the first decimal cut off
Round1Truncating(x) == Div[MathFloor[Mul[x, Num(10)]], Num(10)]

\* Math.round(x * 10) / 10
Round1(x) == Div[MathRound[Mul[x, Num(10)]], Num(10)]

(***************************************************************************)
(* NBAApiService.calculatePER                                              *)
(***************************************************************************)
EPS     == Fin[1, 1000]      \* the literal 0.001
DRB_PCT == Fin[1, 5]         \* the literal 0.2
TwoThirds == Div[Num(2), Num(3)]

\* the divisor of VOP, line 283: FGA - REB + TOV + 0.44 * FTA
VOPDenominator(p) ==
    Add[Add[Sub[p.FGA, p.REB], p.TOV], Mul[Fin[44, 100], p.FTA]]

\* uPER * 15 before the clamp, for a record with MIN # 0
ScaledUPER(p) ==
    LET fgmE == Add[p.FGM, EPS]
        ftmE == Add[p.FTM, EPS]
        aRate == Div[p.AST, fgmE]
        factor == Sub[TwoThirds,
                      Div[Mul[Fin[1, 2], aRate],
                          Div[Mul[Num(2), fgmE], ftmE]]]
        VOP == Div[p.PTS, VOPDenominator(p)]
        t1  == p.FG3M
        t2  == Mul[TwoThirds, p.AST]
        t3  == Mul[Sub[Num(2), Mul[factor, aRate]], p.FGM]
        t4  == Mul[Mul[p.FTM, Fin[1, 2]],
                   Add[Add[Num(1), Sub[Num(1), aRate]], Mul[TwoThirds, aRate]]]
        t5  == Mul[VOP, p.TOV]
        t6  == Mul[Mul[VOP, DRB_PCT], Sub[p.FGA, p.FGM]]
        t7  == Mul[Mul[Mul[VOP, Fin[44, 100]],
                       Add[Fin[44, 100], Mul[Fin[56, 100], DRB_PCT]]],
                   Sub[p.FTA, p.FTM]]
        t8  == Mul[Mul[VOP, Sub[Num(1), DRB_PCT]], Sub[p.REB, p.REB]]
        t9  == Mul[Mul[VOP, DRB_PCT], p.REB]
        t10 == Mul[VOP, p.STL]
        t11 == Mul[Mul[VOP, DRB_PCT], p.BLK]
        t12 == Mul[p.PF,
                   Sub[Div[p.FTM, p.PF],
                       Mul[Mul[Fin[44, 100], Div[p.FTA, p.PF]], VOP]]]
        sum == Sub[Add[Add[Add[Add[Sub[Sub[Sub[Add[Add[Add[t1, t2], t3], t4],
                     t5], t6], t7], t8], t9], t10], t11], t12]
        uPER == Mul[Div[Num(1), p.MIN], sum]
    IN  Mul[uPER, Num(15)]

\* calculatePER without the guard of line 279
calculatePERUnguarded(p) ==
    MathMax[Num(0), MathMin[Num(40), ScaledUPER(p)]]

\* calculatePER returning uPER * 15 as it is, without the clamp of line 302
calculatePERUnclamped(p) ==
    IF IsZero(p.MIN) THEN Num(0) ELSE ScaledUPER(p)

\* calculatePER with "|| 0" behind the clamp: NaN becomes 0
calculatePEROrZero(p) ==
    IF IsZero(p.MIN) \/ IsNaN(ScaledUPER(p)) THEN Num(0)
    ELSE MathMax[Num(0), MathMin[Num(40), ScaledUPER(p)]]

calculatePER(p) ==
    IF IsZero(p.MIN) THEN Num(0)
    ELSE MathMax[Num(0), MathMin[Num(40), ScaledUPER(p)]]

(***************************************************************************)
(* Helpers on sequences                                                    *)
(***************************************************************************)
Range(s) == {s[i] : i \in DOMAIN s}

SetMax(S) == CHOOSE m \in S : \A x \in S : x <= m

\* all orderings of the indices 1..n
AllOrders(n) ==
    {f \in [1..n -> 1..n] : \A i, j \in 1..n : i # j => f[i] # f[j]}

\* the comparator (a, b) => b.key - a.key of a descending sort, on the keys;
\* a NaN result is read as +0
CmpDesc(ka, kb) ==
    LET v == Sub[kb, ka] IN IF IsNaN(v) THEN 0 ELSE Sign(v)

\* insert index x behind every index that does not sort after it (stable)
RECURSIVE InsertSorted(_, _, _)
InsertSorted(order, x, keys) ==
    IF order = <<>> THEN <<x>>
    ELSE IF CmpDesc(keys[Head(order)], keys[x]) <= 0
         THEN <<Head(order)>> \o InsertSorted(Tail(order), x, keys)
         ELSE <<x>> \o order

\* the indices of keys[1..n] in stable descending order
RECURSIVE StableOrder(_, _)
StableOrder(keys, n) ==
    IF n = 0 THEN <<>> ELSE InsertSorted(StableOrder(keys, n - 1), n, keys)

\* a consistent comparator orders the elements it calls equal alike
Consistent(keys) ==
    \A i, j, l \in DOMAIN keys :
        /\ (CmpDesc(keys[i], keys[j]) = 0 /\ CmpDesc(keys[j], keys[l]) = 0)
              => CmpDesc(keys[i], keys[l]) = 0
        /\ (CmpDesc(keys[i], keys[j]) < 0 /\ CmpDesc(keys[j], keys[l]) <= 0)
              => CmpDesc(keys[i], keys[l]) < 0
        /\ (CmpDesc(keys[i], keys[j]) <= 0 /\ CmpDesc(keys[j], keys[l]) < 0)
              => CmpDesc(keys[i], keys[l]) < 0

\* Array.prototype.sort((a, b) => b.key - a.key): the orders it may leave the
\* indices in.  Stable for a consistent comparator; with an inconsistent one
\* (a NaN key beside two different keys) the order is implementation-defined.
SortOrders(keys) ==
    IF Consistent(keys) THEN {StableOrder(keys, Len(keys))}
    ELSE AllOrders(Len(keys))

\* the elements of s in the given order of indices
Reorder(s, order) == [i \in DOMAIN s |-> s[order[i]]]

\* Number.prototype.toString of a non-negative integer
Digits == <<"0", "1", "2", "3", "4", "5", "6", "7", "8", "9">>

RECURSIVE IntToString(_)
IntToString(n) ==
    IF n < 10 THEN Digits[n + 1]
    ELSE IntToString(n \div 10) \o Digits[(n % 10) + 1]

(***************************************************************************)
(* The NBA stats endpoints, as far as the client reads them.  A string     *)
(* with blanks (a name) is the sequence of its words.                      *)
(***************************************************************************)
Seasons == {"2023-24", "2022-23"}
DefaultSeason == "2023-24"

PlayerHeaders ==
    <<"PLAYER_ID", "PLAYER_NAME", "TEAM_ABBREVIATION", "GP", "MIN",
      "FGM", "FGA", "FG_PCT", "FG3M", "FG3A", "FG3_PCT", "FTM", "FTA", "FT_PCT",
      "REB", "AST", "TOV", "STL", "BLK", "PF", "PTS">>

TeamHeaders ==
    <<"TEAM_ID", "TEAM_NAME", "TEAM_CITY", "TEAM_ABBREVIATION", "W", "L", "W_PCT",
      "PTS", "REB", "AST", "FG_PCT", "FG3_PCT", "FT_PCT">>

\* leaguedashplayerstats rows (PerGame)
RowJames ==
    <<2544, <<"LeBron", "James">>, "LAL", Num(71), Fin[342, 10],
      Num(9), Num(18), Fin[1, 2], Num(2), Num(5), Fin[2, 5], Num(4), Num(5), Fin[4, 5],
      Num(7), Num(0), Num(3), Num(1), Num(1), Num(2), Num(24)>>
RowBench ==
    <<1630, <<"Max", "Christie">>, "LAL", Num(11), Fin[51, 10],
      Num(0), Num(2), Num(0), Num(0), Num(1), Num(0), Num(1), Num(2), Fin[1, 2],
      Fin[13, 10], Num(1), Fin[1, 2], Num(0), Num(0), Num(1), Num(1)>>
RowRookie ==
    <<1641, <<"Jalen", "Hood">>, "LAL", Num(10), Fin[27, 10],
      Num(1), Num(2), Fin[1, 2], Num(0), Num(0), Num(0), Num(0), Num(0), Num(0),
      Num(1), Num(0), Num(0), Num(0), Num(0), Num(1), Num(2)>>
RowJames22 ==
    <<2544, <<"LeBron", "James">>, "LAL", Num(55), Fin[355, 10],
      Num(11), Num(22), Fin[1, 2], Num(2), Num(7), Fin[3, 10], Num(5), Num(6), Fin[4, 5],
      Num(8), Num(0), Num(3), Num(1), Num(1), Num(2), Num(29)>>

\* leaguedashteamstats rows (PerGame)
RowLakers ==
    <<1610612747, <<"Los", "Angeles", "Lakers">>, <<"Los", "Angeles">>, "LAL",
      Num(47), Num(35), Fin[573, 1000],
      Fin[1180, 10], Fin[431, 10], Fin[285, 10], Fin[499, 1000], Fin[377, 1000], Fin[782, 1000]>>
RowCeltics ==
    <<1610612738, <<"Boston", "Celtics">>, <<"Boston">>, "BOS",
      Num(64), Num(18), Fin[780, 1000],
      Fin[1206, 10], Fin[463, 10], Fin[269, 10], Fin[487, 1000], Fin[388, 1000], Fin[807, 1000]>>
RowLakers22 ==
    <<1610612747, <<"Los", "Angeles", "Lakers">>, <<"Los", "Angeles">>, "LAL",
      Num(43), Num(39), Fin[524, 1000],
      Fin[1172, 10], Fin[456, 10], Fin[253, 10], Fin[482, 1000], Fin[346, 1000], Fin[775, 1000]>>

\* the row sets the player endpoint may answer with for a season
PlayerRowSets(season) ==
    IF season = "2023-24"
    THEN {<<RowJames, RowRookie>>, <<RowBench>>, <<>>}
    ELSE {<<RowJames22>>}

\* the row sets the team endpoint may answer with for a season
TeamRowSets(season) ==
    IF season = "2023-24"
    THEN {<<RowLakers, RowCeltics>>, <<RowCeltics>>}
    ELSE {<<RowLakers22>>}

\* what axios.get may end in: a network or HTTP error, a body without
\* resultSets, or the expected body
Answer(status, headers, rowSet) ==
    [status |-> status, headers |-> headers, rowSet |-> rowSet]

Answers(headers, rowSets) ==
    {Answer("error", <<>>, <<>>), Answer("noResultSets", <<>>, <<>>)}
        \cup {Answer("ok", headers, rows) : rows \in rowSets}

PlayerAnswers(season) == Answers(PlayerHeaders, PlayerRowSets(season))
TeamAnswers(season)   == Answers(TeamHeaders, TeamRowSets(season))

(***************************************************************************)
(* NBAApiService                                                           *)
(***************************************************************************)
\* the outcome of a call: a normal return with a value, or a throw
Return(v) == [threw |-> FALSE, value |-> v]
Throw     == [threw |-> TRUE,  value |-> <<>>]

\* makeRequest: response.data, or a throw when axios.get rejects
makeRequest(answer) ==
    IF answer.status = "error" THEN Throw ELSE Return(answer)

\* headers.forEach((header, index) => obj[header] = row[index])
ZipRow(headers, row) ==
    [h \in Range(headers) |-> row[SetMax({i \in DOMAIN headers : headers[i] = h})]]

\* the body of getPlayerStats / getTeamStats: the rows as objects; a throw of
\* makeRequest, of data.resultSets[0] or of rows.map is caught and answered
\* with []
RowsOrEmpty(answer) ==
    LET data == makeRequest(answer)
    IN  IF data.threw THEN <<>>
        ELSE IF data.value.status \in {"noResultSets", "noRowSet"} THEN <<>>
        ELSE [i \in DOMAIN data.value.rowSet |->
                 ZipRow(data.value.headers, data.value.rowSet[i])]

getPlayerStats(answer) == Return(RowsOrEmpty(answer))
getTeamStats(answer)   == Return(RowsOrEmpty(answer))

(***************************************************************************)
(* RealNBADataService: the conversions                                     *)
(***************************************************************************)
\* the values Math.random() is drawn from, all in [0, 1)
RandomDraws == {Num(0), Fin[99, 100]}

Positions == <<"PG", "SG", "SF", "PF", "C">>

\* getPlayerPosition: positions[Math.floor(Math.random() * positions.length)]
getPlayerPosition(playerName, rnd) ==
    Positions[MathFloor[Mul[rnd, Num(Len(Positions))]].n + 1]

Weights ==
    <<Fin[85, 100], Fin[61, 100], Fin[55, 100], Fin[72, 100], Fin[68, 100], Fin[45, 100],
      Fin[38, 100], Fin[42, 100], Fin[39, 100], Fin[-33, 100], Fin[28, 100]>>

\* feature || 0
OrZero(x) == IF IsNaN(x) \/ IsZero(x) THEN Num(0) ELSE x

RECURSIVE WeightedSum(_, _)
WeightedSum(features, n) ==
    IF n = 0 THEN Num(0)
    ELSE Add[WeightedSum(features, n - 1), Mul[OrZero(features[n]), Weights[n]]]

\* generateMLPrediction without the clamp of line 124
generateMLPredictionUnclamped(player, actualPER, rnd) ==
    LET features == <<player.PTS, player.REB, player.AST, player.MIN,
                      player.FG_PCT, player.FG3_PCT, player.FT_PCT,
                      player.STL, player.BLK, player.TOV, player.GP>>
        weighted == WeightedSum(features, Len(features))
        based    == Add[Div[weighted, Num(100)], Num(10)]
    IN  Add[based, Mul[Sub[rnd, Fin[1, 2]], Num(3)]]

\* generateMLPrediction; actualPER is not read
generateMLPrediction(player, actualPER, rnd) ==
    LET features == <<player.PTS, player.REB, player.AST, player.MIN,
                      player.FG_PCT, player.FG3_PCT, player.FT_PCT,
                      player.STL, player.BLK, player.TOV, player.GP>>
        weighted == WeightedSum(features, Len(features))
        based    == Add[Div[weighted, Num(100)], Num(10)]
        varied   == Add[based, Mul[Sub[rnd, Fin[1, 2]], Num(3)]]
    IN  MathMax[Num(0), MathMin[Num(40), varied]]

\* the filter with player.GP >= 10
AdmittedFromTen(player) == ~Lt[player.GP, Num(10)] /\ ~IsNaN(player.GP)

\* the filter of convertToPlayerFormat: player.GP > 10
Admitted(player) == Lt[Num(10), player.GP]

\* the map callback of convertToPlayerFormat; rnds = the two Math.random()
\* values, drawn for the prediction and then for the position
PlayerOf(player, rnds) ==
    LET per          == calculatePER(player)
        predictedPER == generateMLPrediction(player, per, rnds[1])
    IN  [id |-> IntToString(player.PLAYER_ID),
         name |-> player.PLAYER_NAME,
         team |-> player.TEAM_ABBREVIATION,
         position |-> getPlayerPosition(player.PLAYER_NAME, rnds[2]),
         gamesPlayed |-> player.GP,
         minutes |-> Round1(player.MIN),
         points |-> Round1(player.PTS),
         rebounds |-> Round1(player.REB),
         assists |-> Round1(player.AST),
         steals |-> Round1(player.STL),
         blocks |-> Round1(player.BLK),
         turnovers |-> Round1(player.TOV),
         fieldGoalsMade |-> Round1(player.FGM),
         fieldGoalsAttempted |-> Round1(player.FGA),
         threePointersMade |-> Round1(player.FG3M),
         threePointersAttempted |-> Round1(player.FG3A),
         freeThrowsMade |-> Round1(player.FTM),
         freeThrowsAttempted |-> Round1(player.FTA),
         per |-> Round1(per),
         predictedPER |-> Round1(predictedPER)]

\* convertToPlayerFormat with the random values it draws given: draws[i] is
\* the pair drawn for the i-th admitted record; the orders Array.sort may leave
ConvertPlayersWith(nbaPlayers, draws) ==
    LET kept == SelectSeq(nbaPlayers, Admitted)
    IN  UNION {{Reorder(mapped, order) :
                    order \in SortOrders([i \in DOMAIN mapped |-> mapped[i].per])} :
               mapped \in {[i \in DOMAIN kept |-> PlayerOf(kept[i], draws[i])]}}

\* convertToPlayerFormat: every sequence it may return
convertToPlayerFormat(nbaPlayers) ==
    LET n == Len(SelectSeq(nbaPlayers, Admitted))
    IN  UNION {ConvertPlayersWith(nbaPlayers, draws) :
                  draws \in [1..n -> RandomDraws \X RandomDraws]}

\* TEAM_NAME.replace(/^.*\s/, ''): the text behind the last blank
LastWord(name) == IF name = <<>> THEN <<>> ELSE <<name[Len(name)]>>

\* Math.round(x * 1000) / 10
RoundPct(x) == Div[MathRound[Mul[x, Num(1000)]], Num(10)]

TeamOf(team) ==
    [id |-> IntToString(team.TEAM_ID),
     name |-> LastWord(team.TEAM_NAME),
     city |-> team.TEAM_CITY,
     abbreviation |-> team.TEAM_ABBREVIATION,
     wins |-> team.W,
     losses |-> team.L,
     winPercentage |-> RoundPct(team.W_PCT),
     pointsPerGame |-> Round1(team.PTS),
     reboundsPerGame |-> Round1(team.REB),
     assistsPerGame |-> Round1(team.AST),
     fieldGoalPercentage |-> RoundPct(team.FG_PCT),
     threePointPercentage |-> RoundPct(team.FG3_PCT),
     freeThrowPercentage |-> RoundPct(team.FT_PCT)]

\* convertToTeamFormat: every sequence it may return
convertToTeamFormat(nbaTeams) ==
    LET mapped == [i \in DOMAIN nbaTeams |-> TeamOf(nbaTeams[i])]
        keys   == [i \in DOMAIN mapped |-> mapped[i].winPercentage]
    IN  {Reorder(mapped, order) : order \in SortOrders(keys)}

(***************************************************************************)
(* Tables of the functions above over the answers of the model, so that    *)
(* each is computed once                                                   *)
(***************************************************************************)
AllPlayerAnswers == UNION {PlayerAnswers(s) : s \in Seasons}
AllTeamAnswers   == UNION {TeamAnswers(s) : s \in Seasons}

PlayerStatsOf == [a \in AllPlayerAnswers |-> getPlayerStats(a)]
TeamStatsOf   == [a \in AllTeamAnswers |-> getTeamStats(a)]

PlayerFormatsOf ==
    [rows \in {<<>>} \cup {PlayerStatsOf[a].value : a \in AllPlayerAnswers} |->
        convertToPlayerFormat(rows)]
TeamFormatsOf ==
    [rows \in {<<>>} \cup {TeamStatsOf[a].value : a \in AllTeamAnswers} |->
        convertToTeamFormat(rows)]

(***************************************************************************)
(* RealNBADataService: the state and the two fetch methods                 *)
(***************************************************************************)
VARIABLES
    playerStatsCache,   \* this.playerStatsCache
    teamStatsCache,     \* this.teamStatsCache
    lastFetchTime,      \* this.lastFetchTime
    now,                \* Date.now()
    ticks,              \* how often the clock has advanced
    inflight,           \* bag of calls suspended at their await of the API
    last,               \* the latest step of a call: what it did and returned
    fetchedAt,          \* history: when each cache was last written
    failedLast,         \* history: did the API fail in the kind's latest fetch
    arg,                \* the argument of a function evaluated on its own
    result,             \* what its latest call returned
    previous,           \* and what the call before that returned
    app,                \* the state of the App component and of its load
    hist                \* the state of a call of fetchHistoricalData

vars == <<playerStatsCache, teamStatsCache, lastFetchTime, now, ticks,
          inflight, last, fetchedAt, failedLast, arg, result, previous, app, hist>>

CACHE_DURATION == 5 * 60 * 1000

\* bounds of the model
MaxTicks    == 2
MaxInFlight == 2

\* the clock at construction; any time later than CACHE_DURATION behaves alike
StartTime == 2 * CACHE_DURATION

\* the amounts the clock advances by between two steps
TickSteps == {1, CACHE_DURATION - 1}

\* the season the application asks for
AppSeasons == {"2023-24"}

\* a step of a call: "hit" (returned from the cache), "start" (suspended at the
\* API call) or "done" (resumed and returned).  at: the clock at the step;
\* raced: another call of the kind was suspended when this one began;
\* failed: the API request of the call failed; fetched: what the API client
\* handed back; threw and value: how the call ended
Event(type, call, failed, fetched, outcome) ==
    [type |-> type, kind |-> call.kind, season |-> call.season, at |-> now,
     raced |-> call.raced, failed |-> failed, fetched |-> fetched,
     threw |-> outcome.threw, value |-> outcome.value]

InFlightOf(kind) == {c \in BagToSet(inflight) : c.kind = kind}

Call(kind, season) ==
    [kind |-> kind, season |-> season, raced |-> InFlightOf(kind) # {}]

NoValue == [k |-> "none", n |-> 0, d |-> 1]

\* the cache check expiring one millisecond early
CacheValidEarly(cache, stamp, t) ==
    Len(cache) > 0 /\ t - stamp < CACHE_DURATION - 1

\* the cache check with the boundary age still valid
CacheValidLate(cache, stamp, t) ==
    Len(cache) > 0 /\ t - stamp <= CACHE_DURATION

\* the cache check without the length test
CacheValidAnyLength(cache, stamp, t) == t - stamp < CACHE_DURATION

\* the cache check of lines 13 and 34
CacheValid(cache, stamp, t) == Len(cache) > 0 /\ t - stamp < CACHE_DURATION

\* a timestamp of the team cache alone
TeamStampOwn == fetchedAt.teams

\* the timestamp each method compares the clock with
PlayerStamp == lastFetchTime
TeamStamp == lastFetchTime

\* first writer wins: a resumed call keeps a cache it finds filled
StoredFirst(found, fetched) == IF found # <<>> THEN found ELSE fetched

\* what a resumed call stores over the cache it finds
Stored(found, fetched) == fetched

\* App before its first load: the useState initial values of lines 14-19.
\* pc: where loadNBAData stands; got: what the two promises of Promise.all
\* have resolved to; seen: the latest step of a fetch call the load has taken
\* note of; apiFailed: an API request of the load has failed, failedOf: the
\* request of which call; lastUpdated: the clock at setLastUpdated, -1 for
\* null; loads: the calls of loadNBAData so far; running: the ones of them that
\* have not returned
InitialApp ==
    [pc |-> "idle", isLoading |-> TRUE, hasError |-> FALSE,
     players |-> <<>>, teams |-> <<>>, lastUpdated |-> -1,
     got |-> [players |-> NoValue, teams |-> NoValue],
     seen |-> NoValue, apiFailed |-> FALSE,
     failedOf |-> [players |-> FALSE, teams |-> FALSE],
     loads |-> 0, running |-> 0]

\* no call of fetchHistoricalData yet.  pc: where the call stands; i: the
\* index of the season of the loop; seen: the latest step of a fetch call the
\* loop has taken note of; cachedFor: the season each cache was filled for;
\* served: for every fetch call that returned, the season asked for and the
\* season its records were fetched for
InitialHist ==
    [pc |-> "idle", i |-> 1, allPlayers |-> <<>>, allTeams |-> <<>>,
     seen |-> NoValue, cachedFor |-> [players |-> "none", teams |-> "none"],
     served |-> <<>>]

InitService ==
    /\ playerStatsCache = <<>>
    /\ teamStatsCache = <<>>
    /\ lastFetchTime = 0
    /\ now = StartTime
    /\ ticks = 0
    /\ inflight = EmptyBag
    /\ last = [type |-> "none", kind |-> "none", season |-> DefaultSeason,
               at |-> StartTime, raced |-> FALSE, failed |-> FALSE,
               fetched |-> <<>>, threw |-> FALSE, value |-> <<>>]
    /\ fetchedAt = [players |-> 0, teams |-> 0]
    /\ failedLast = [players |-> FALSE, teams |-> FALSE]

Init ==
    /\ InitService
    /\ arg = NoValue
    /\ result = NoValue
    /\ previous = NoValue
    /\ app = InitialApp
    /\ hist = InitialHist

\* fetchPlayerData, lines 13-14: the cache is valid
FetchPlayerDataCached(season) ==
    /\ CacheValid(playerStatsCache, PlayerStamp, now)
    /\ \E players \in PlayerFormatsOf[playerStatsCache] :
          last' = Event("hit", Call("players", season), FALSE, <<>>, Return(players))
    /\ UNCHANGED <<playerStatsCache, teamStatsCache, lastFetchTime, now, ticks,
                   inflight, fetchedAt, failedLast, arg, result, previous, app, hist>>

\* fetchPlayerData, lines 13-18: the cache is not valid; the call suspends at
\* await nbaApi.getPlayerStats(season)
FetchPlayerDataStart(season) ==
    /\ ~CacheValid(playerStatsCache, PlayerStamp, now)
    /\ BagCardinality(inflight) < MaxInFlight
    /\ inflight' = inflight (+) SetToBag({Call("players", season)})
    /\ last' = Event("start", Call("players", season), FALSE, <<>>, Return(<<>>))
    /\ UNCHANGED <<playerStatsCache, teamStatsCache, lastFetchTime, now, ticks,
                   fetchedAt, failedLast, arg, result, previous, app, hist>>

\* fetchPlayerData, lines 18-28: the API call settles and the call resumes
FetchPlayerDataResume(c, answer) ==
    /\ c \in InFlightOf("players")
    /\ inflight' = inflight (-) SetToBag({c})
    /\ LET playerStats == PlayerStatsOf[answer]
       IN  IF playerStats.threw
           THEN /\ last' = Event("done", c, TRUE, <<>>, Return(<<>>))
                /\ UNCHANGED <<playerStatsCache, lastFetchTime, fetchedAt>>
           ELSE /\ playerStatsCache' = Stored(playerStatsCache, playerStats.value)
                /\ lastFetchTime' = now
                /\ fetchedAt' = [fetchedAt EXCEPT !.players = now]
                /\ \E players \in PlayerFormatsOf[playerStats.value] :
                      last' = Event("done", c, answer.status # "ok",
                                    playerStats.value, Return(players))
    /\ failedLast' = [failedLast EXCEPT !.players = (answer.status # "ok")]
    /\ UNCHANGED <<teamStatsCache, now, ticks, arg, result, previous, app, hist>>

\* fetchTeamData, lines 34-35
FetchTeamDataCached(season) ==
    /\ CacheValid(teamStatsCache, TeamStamp, now)
    /\ \E teams \in TeamFormatsOf[teamStatsCache] :
          last' = Event("hit", Call("teams", season), FALSE, <<>>, Return(teams))
    /\ UNCHANGED <<playerStatsCache, teamStatsCache, lastFetchTime, now, ticks,
                   inflight, fetchedAt, failedLast, arg, result, previous, app, hist>>

\* fetchTeamData, lines 34-39
FetchTeamDataStart(season) ==
    /\ ~CacheValid(teamStatsCache, TeamStamp, now)
    /\ BagCardinality(inflight) < MaxInFlight
    /\ inflight' = inflight (+) SetToBag({Call("teams", season)})
    /\ last' = Event("start", Call("teams", season), FALSE, <<>>, Return(<<>>))
    /\ UNCHANGED <<playerStatsCache, teamStatsCache, lastFetchTime, now, ticks,
                   fetchedAt, failedLast, arg, result, previous, app, hist>>

\* fetchTeamData, lines 39-48
FetchTeamDataResume(c, answer) ==
    /\ c \in InFlightOf("teams")
    /\ inflight' = inflight (-) SetToBag({c})
    /\ LET teamStats == TeamStatsOf[answer]
       IN  IF teamStats.threw
           THEN /\ last' = Event("done", c, TRUE, <<>>, Return(<<>>))
                /\ UNCHANGED <<teamStatsCache, lastFetchTime, fetchedAt>>
           ELSE /\ teamStatsCache' = Stored(teamStatsCache, teamStats.value)
                /\ lastFetchTime' = now
                /\ fetchedAt' = [fetchedAt EXCEPT !.teams = now]
                /\ \E teams \in TeamFormatsOf[teamStats.value] :
                      last' = Event("done", c, answer.status # "ok",
                                    teamStats.value, Return(teams))
    /\ failedLast' = [failedLast EXCEPT !.teams = (answer.status # "ok")]
    /\ UNCHANGED <<playerStatsCache, now, ticks, arg, result, previous, app, hist>>

\* time passes
Tick(d) ==
    /\ ticks < MaxTicks
    /\ now' = now + d
    /\ ticks' = ticks + 1
    /\ UNCHANGED <<playerStatsCache, teamStatsCache, lastFetchTime,
                   inflight, last, fetchedAt, failedLast, arg, result, previous, app, hist>>

Next ==
    \/ \E season \in AppSeasons : FetchPlayerDataCached(season)
    \/ \E season \in AppSeasons : FetchPlayerDataStart(season)
    \/ \E c \in InFlightOf("players") : \E answer \in PlayerAnswers(c.season) :
          FetchPlayerDataResume(c, answer)
    \/ \E season \in AppSeasons : FetchTeamDataCached(season)
    \/ \E season \in AppSeasons : FetchTeamDataStart(season)
    \/ \E c \in InFlightOf("teams") : \E answer \in TeamAnswers(c.season) :
          FetchTeamDataResume(c, answer)
    \/ \E d \in TickSteps : Tick(d)

Spec == Init /\ [][Next]_vars

(***************************************************************************)
(* Properties of the two fetch methods                                     *)
(***************************************************************************)
Kinds == {"players", "teams"}

CacheOf(kind) == IF kind = "players" THEN playerStatsCache ELSE teamStatsCache

FormatsOf(kind, rows) ==
    IF kind = "players" THEN PlayerFormatsOf[rows] ELSE TeamFormatsOf[rows]

Max(a, b) == IF a < b THEN b ELSE a

\* the step in which a call of the kind begins: it returns from the cache or
\* suspends at the API call
BeginsCall(kind) ==
    /\ ticks' = ticks
    /\ BagCardinality(inflight') >= BagCardinality(inflight)
    /\ last'.kind = kind
    /\ last'.type \in {"hit", "start"}

\* the step in which a suspended call of the kind resumes and returns
Resumes(kind) ==
    /\ BagCardinality(inflight') = BagCardinality(inflight) - 1
    /\ last'.kind = kind
    /\ last'.type = "done"

\* the step adds exactly one API call of the kind to those in flight
FetchesOnce(kind) ==
    /\ last'.type = "start"
    /\ BagCardinality(inflight') = BagCardinality(inflight) + 1
    /\ Cardinality(InFlightOf(kind)') >= 1
    /\ \E c \in InFlightOf(kind)' : inflight' = inflight (+) SetToBag({c})

\* the step leaves both caches and the timestamp alone
ServiceUnchanged ==
    UNCHANGED <<playerStatsCache, teamStatsCache, lastFetchTime>>

\* C1: a call that finds its kind's cached sequence non-empty and
\* now - lastFetchTime < CACHE_DURATION returns, without an API call and
\* without a failure, data converted from the cached sequence, and leaves
\* the caches and the timestamp as they were.
C1_CacheHit ==
    [][\A kind \in Kinds :
          (/\ BeginsCall(kind)
           /\ Len(CacheOf(kind)) > 0
           /\ now - lastFetchTime < CACHE_DURATION)
          => /\ last'.type = "hit"
             /\ inflight' = inflight
             /\ ~last'.threw
             /\ last'.value \in FormatsOf(kind, CacheOf(kind))
             /\ ServiceUnchanged]_vars

\* a hit of a filled cache at the greatest age still valid
C1_Witness ==
    /\ last.type = "hit"
    /\ last.value # <<>>
    /\ last.at - lastFetchTime = CACHE_DURATION - 1

\* C2: a call that finds its kind's cached sequence empty, or
\* now - lastFetchTime >= CACHE_DURATION (the age CACHE_DURATION included),
\* makes exactly one API call; when that call succeeds, the resumed call
\* stores what was fetched as the kind's cached sequence, sets lastFetchTime
\* to the clock, and returns the conversion of what was fetched.
C2_CacheMiss ==
    [][\A kind \in Kinds :
          /\ (/\ BeginsCall(kind)
              /\ (Len(CacheOf(kind)) = 0 \/ now - lastFetchTime >= CACHE_DURATION))
             => FetchesOnce(kind) /\ ServiceUnchanged
          /\ (Resumes(kind) /\ ~last'.failed)
             => /\ CacheOf(kind)' = last'.fetched
                /\ lastFetchTime' = now
                /\ ~last'.threw
                /\ last'.value \in FormatsOf(kind, last'.fetched)]_vars

\* a call suspended at the API although its cache is filled, the age of the
\* timestamp being exactly CACHE_DURATION
C2_Witness ==
    /\ last.type = "start"
    /\ Len(CacheOf(last.kind)) > 0
    /\ last.at - lastFetchTime = CACHE_DURATION

\* C3: when the API request of a call fails, the resumed call leaves the
\* kind's cached sequence and lastFetchTime exactly as it found them.
C3_FailureKeepsCache ==
    [][\A kind \in Kinds :
          (Resumes(kind) /\ last'.failed)
          => CacheOf(kind)' = CacheOf(kind) /\ lastFetchTime' = lastFetchTime]_vars

\* C4: a call whose API request failed ends in a failure, not in a value.
C4_FailurePropagates ==
    (last.type = "done" /\ last.failed) => last.threw

\* C5: after a fetch of a kind that failed, the next call of the kind makes
\* an API call again, however little time has passed since; and when a fetch
\* after a failed one succeeds, what it fetched becomes the kind's cached
\* sequence and lastFetchTime the clock.
C5_NotPoisoned ==
    [][\A kind \in Kinds :
          /\ (BeginsCall(kind) /\ failedLast[kind]) => FetchesOnce(kind)
          /\ (Resumes(kind) /\ failedLast[kind] /\ ~last'.failed)
             => CacheOf(kind)' = last'.fetched /\ lastFetchTime' = now]_vars

\* a call that begins at the very time the kind's failed fetch ended, no
\* other call of the kind being in flight, and suspends at the API
C5_Witness ==
    /\ last.type = "start"
    /\ ~last.raced
    /\ failedLast[last.kind]
    /\ last.at = fetchedAt[last.kind]

\* C6: a call of fetchPlayerData that returns from the cache right after a
\* call of fetchPlayerData returned, no other call in between, returns the
\* same Player records in the same order as that call did.
C6_HitIdentical ==
    [][(/\ BeginsCall("players")
        /\ last'.type = "hit"
        /\ last.kind = "players"
        /\ last.type \in {"hit", "done"})
       => last'.value = last.value]_vars

\* C7: there is one timestamp for both kinds: lastFetchTime is the time of
\* the latest write of either cache, and a call of either kind returns from
\* the cache exactly if its cache is filled and that time is less than
\* CACHE_DURATION ago; a resumed call writes the cache of its kind only.
C7_SharedTimestamp ==
    [][/\ lastFetchTime' = Max(fetchedAt'.players, fetchedAt'.teams)
       /\ \A kind \in Kinds :
             BeginsCall(kind)
             => (last'.type = "hit"
                 <=> (/\ Len(CacheOf(kind)) > 0
                      /\ now - Max(fetchedAt.players, fetchedAt.teams)
                           < CACHE_DURATION))
       /\ Resumes("players") => teamStatsCache' = teamStatsCache
       /\ Resumes("teams") => playerStatsCache' = playerStatsCache]_vars

\* a team call returned from a cache written CACHE_DURATION ago or earlier,
\* the timestamp having been set by a fetch of players since
C7_Witness ==
    /\ last.type = "hit"
    /\ last.kind = "teams"
    /\ last.at - fetchedAt.teams >= CACHE_DURATION
    /\ lastFetchTime = fetchedAt.players

\* C8: a call returns from the cache only data whose own fetch ended less
\* than CACHE_DURATION before the call.
C8_FiveMinutes ==
    last.type = "hit" => last.at - fetchedAt[last.kind] < CACHE_DURATION

\* C9: a call that begins while another call of its kind is in flight and
\* the cache is empty or expired makes an API call of its own; and every
\* resumed call overwrites the kind's cached sequence and lastFetchTime, so
\* that they are those of the call that resumed last.
C9_LastWriterWins ==
    [][\A kind \in Kinds :
          /\ (/\ BeginsCall(kind)
              /\ InFlightOf(kind) # {}
              /\ ~(Len(CacheOf(kind)) > 0 /\ now - lastFetchTime < CACHE_DURATION))
             => FetchesOnce(kind) /\ last'.raced
          /\ Resumes(kind)
             => /\ CacheOf(kind)' = last'.fetched
                /\ lastFetchTime' = last'.at
                /\ last'.at = now]_vars

\* of two calls of a kind in flight together, the one that began second has
\* resumed last, after the other had written the cache, and its rows are held
C9_Witness ==
    /\ last.type = "done"
    /\ last.raced
    /\ inflight = EmptyBag
    /\ last.fetched # <<>>
    /\ CacheOf(last.kind) = last.fetched

(***************************************************************************)
(* calculatePER evaluated on its own                                       *)
(***************************************************************************)
\* the largest value of a statistic in the records calculatePER is given
MaxStat == 1

StatValues == {Num(i) : i \in 0..MaxStat}

\* statistics records: every field calculatePER divides by takes the value 0
\* and other values, so does every summand of the VOP denominator.  A record
\* has at most one assist and has assists or field goals made, not both: the
\* exact fractions of the others do not fit TLC's integers
PERInputs ==
    {p \in [MIN : StatValues, PF : StatValues, FGA : StatValues,
            REB : StatValues, TOV : StatValues, FTA : StatValues,
            PTS : StatValues, FGM : StatValues, AST : {Num(0), Num(1)},
            FTM : {Num(1)}, FG3M : {Num(1)}, STL : {Num(1)}, BLK : {Num(1)}] :
        IsZero(p.AST) \/ IsZero(p.FGM)}

InitPER ==
    /\ InitService
    /\ arg \in PERInputs
    /\ result = NoValue
    /\ previous = NoValue
    /\ app = InitialApp
    /\ hist = InitialHist

\* a call of nbaApi.calculatePER(arg) that adds what it returns to what the
\* call before returned, as if a total were kept between calls
CalculatePERKeepingTotal ==
    /\ arg # NoValue
    /\ result' = IF result = NoValue THEN calculatePER(arg)
                 ELSE Add[result, calculatePER(arg)]
    /\ previous' = result
    /\ UNCHANGED <<playerStatsCache, teamStatsCache, lastFetchTime, now, ticks,
                   inflight, last, fetchedAt, failedLast, arg, app, hist>>

\* a call of nbaApi.calculatePER(arg); the record may be passed again
CalculatePER ==
    /\ arg # NoValue
    /\ result' = calculatePER(arg)
    /\ previous' = result
    /\ UNCHANGED <<playerStatsCache, teamStatsCache, lastFetchTime, now, ticks,
                   inflight, last, fetchedAt, failedLast, arg, app, hist>>

NextPER == CalculatePER

SpecPER == InitPER /\ [][NextPER]_vars

\* C10: calculatePER returns exactly 0 for every record whose MIN is 0,
\* whatever its other fields are.
C10_ZeroMinutes ==
    (result # NoValue /\ IsZero(arg.MIN)) => result = Num(0)

\* a record with MIN = 0 whose PF and whose VOP denominator are 0 too
C10_Witness ==
    /\ result = Num(0)
    /\ IsZero(arg.MIN)
    /\ IsZero(arg.PF)
    /\ IsZero(arg.FGA) /\ IsZero(arg.REB) /\ IsZero(arg.TOV) /\ IsZero(arg.FTA)

\* the record has minutes and none of the two unguarded divisors is zero
NonDegenerate(p) ==
    /\ ~IsZero(p.MIN)
    /\ ~IsZero(p.PF)
    /\ ~IsZero(VOPDenominator(p))

\* the record has minutes and an unguarded divisor that is zero
Degenerate(p) ==
    /\ ~IsZero(p.MIN)
    /\ IsZero(p.PF) \/ IsZero(VOPDenominator(p))

\* 0 <= x <= 40 for a finite x
InRange(x) ==
    /\ IsFinite(x)
    /\ ~Lt[x, Num(0)]
    /\ ~Lt[Num(40), x]

\* C11: for a record with MIN > 0, PF # 0 and FGA - REB + TOV + 0.44 * FTA # 0
\* calculatePER returns a finite value r with 0 <= r <= 40.
C11_Clamped ==
    (result # NoValue /\ NonDegenerate(arg)) => InRange(result)

\* a result strictly between the two ends of the range
C11_Witness ==
    /\ result # NoValue
    /\ NonDegenerate(arg)
    /\ InRange(result)
    /\ Lt[Num(0), result] /\ Lt[result, Num(40)]

C13_DegenerateNonFinite ==
    result # NoValue
    => /\ Degenerate(arg) => result \in {NaN, PInf}
       /\ InRange(result) \/ result \in {NaN, PInf}

\* a record with fouls whose VOP divisor is zero has yielded NaN
C13_Witness ==
    /\ result = NaN
    /\ ~IsZero(arg.MIN)
    /\ ~IsZero(arg.PF)
    /\ IsZero(VOPDenominator(arg))

(***************************************************************************)
(* convertToPlayerFormat evaluated on its own                              *)
(***************************************************************************)
\* the longest sequence of records convertToPlayerFormat is given
MaxPlayers == 4

\* records of NBAPlayerStats.  StatsTwin has the statistics of StatsJames under
\* another name, StatsBench lacks FG_PCT, StatsNoFouls has PF = 0 and an
\* outsized GP, StatsSloppy an outsized TOV, StatsRookie has GP = 10
StatsJames ==
    [ZipRow(PlayerHeaders, RowJames) EXCEPT !.FG3A = Fin[2734999, 100000]]
StatsTwin ==
    [ZipRow(PlayerHeaders, RowJames) EXCEPT
        !.PLAYER_ID = 2545, !.PLAYER_NAME = <<"Bronny", "James">>,
        !.FG3A = Fin[2735, 100]]
StatsBench ==
    [ZipRow(PlayerHeaders, RowBench) EXCEPT !.FG_PCT = NaN]
StatsNoFouls ==
    [ZipRow(PlayerHeaders, RowJames) EXCEPT
        !.PLAYER_ID = 2546, !.PLAYER_NAME = <<"Clean", "Hands">>,
        !.PF = Num(0), !.GP = Num(20000)]
StatsSloppy ==
    [ZipRow(PlayerHeaders, RowBench) EXCEPT
        !.PLAYER_ID = 1631, !.PLAYER_NAME = <<"Loose", "Ball">>,
        !.GP = Num(12), !.PTS = Num(0), !.TOV = Num(4000)]
StatsRookie == ZipRow(PlayerHeaders, RowRookie)

StatsPool ==
    {StatsJames, StatsTwin, StatsBench, StatsNoFouls, StatsSloppy, StatsRookie}

\* the sequences of records given to convertToPlayerFormat: the endpoint has
\* one row for a player, so the records of a sequence differ
ConvertInputs ==
    {s \in UNION {[1..n -> StatsPool] : n \in 0..MaxPlayers} :
        \A i, j \in DOMAIN s : i # j => s[i] # s[j]}

\* the values Math.random() returns in one call of convertToPlayerFormat:
\* one pair, drawn alike for every record
ConvertDraws(n) ==
    {[i \in 1..n |-> pair] : pair \in RandomDraws \X RandomDraws}

InitConvert ==
    /\ InitService
    /\ arg \in ConvertInputs
    /\ result = NoValue
    /\ previous = NoValue
    /\ app = InitialApp
    /\ hist = InitialHist

\* a call of convertToPlayerFormat(arg) that filters the array it is given
\* in place before it maps it
ConvertToPlayerFormatInPlace ==
    /\ result = NoValue
    /\ \E draws \in ConvertDraws(Len(arg)) :
          \E players \in ConvertPlayersWith(arg, draws) :
             result' = Return(players)
    /\ arg' = SelectSeq(arg, Admitted)
    /\ UNCHANGED <<playerStatsCache, teamStatsCache, lastFetchTime, now, ticks,
                   inflight, last, fetchedAt, failedLast, previous, app, hist>>

\* a call of convertToPlayerFormat(arg)
ConvertToPlayerFormat ==
    /\ result = NoValue
    /\ \E draws \in ConvertDraws(Len(arg)) :
          \E players \in ConvertPlayersWith(arg, draws) :
             result' = Return(players)
    /\ UNCHANGED <<playerStatsCache, teamStatsCache, lastFetchTime, now, ticks,
                   inflight, last, fetchedAt, failedLast, arg, previous, app, hist>>

NextConvert == ConvertToPlayerFormat

SpecConvert == InitConvert /\ [][NextConvert]_vars

\* a call of convertToPlayerFormat has returned
Converted == result # NoValue

\* the index in the input of the record a Player was made of
InputIndex(player) == CHOOSE i \in DOMAIN arg : arg[i].PLAYER_NAME = player.name

\* the indices of the records with more than ten games
MoreThanTen == {i \in DOMAIN arg : arg[i].GP.k = "fin" /\ arg[i].GP.n > 10 * arg[i].GP.d}

Geq(x, y) == ~IsNaN(x) /\ ~IsNaN(y) /\ ~Lt[x, y]

\* C15: in the sequence convertToPlayerFormat returns, the per of every
\* record is greater than or equal to the per of the record behind it.
C15_SortedDescending ==
    Converted
    => \A j \in 1..(Len(result.value) - 1) :
          Geq(result.value[j].per, result.value[j + 1].per)

RoundHalfAway1(x) ==
    LET tenths == (2 * 10 * Abs(x.n) + x.d) \div (2 * x.d)
    IN  [k |-> "fin",
         n |-> (Sign(x) * tenths) \div Gcd[tenths, 10],
         d |-> 10 \div Gcd[tenths, 10]]

\* C17: every per-game field of an output Player is the raw field of its
\* record rounded to one decimal place, halves away from zero.
C17_Rounding ==
    Converted
    => \A j \in DOMAIN result.value :
          LET player == result.value[j]
              raw    == arg[InputIndex(player)]
          IN  /\ player.minutes = RoundHalfAway1(raw.MIN)
              /\ player.points = RoundHalfAway1(raw.PTS)
              /\ player.rebounds = RoundHalfAway1(raw.REB)
              /\ player.assists = RoundHalfAway1(raw.AST)
              /\ player.steals = RoundHalfAway1(raw.STL)
              /\ player.blocks = RoundHalfAway1(raw.BLK)
              /\ player.turnovers = RoundHalfAway1(raw.TOV)
              /\ player.fieldGoalsMade = RoundHalfAway1(raw.FGM)
              /\ player.fieldGoalsAttempted = RoundHalfAway1(raw.FGA)
              /\ player.threePointersMade = RoundHalfAway1(raw.FG3M)
              /\ player.threePointersAttempted = RoundHalfAway1(raw.FG3A)
              /\ player.freeThrowsMade = RoundHalfAway1(raw.FTM)
              /\ player.freeThrowsAttempted = RoundHalfAway1(raw.FTA)

\* the raw values 27.34999 and 27.35 have become 27.3 and 27.4
C17_Witness ==
    /\ Converted
    /\ \E j \in DOMAIN result.value :
          /\ arg[InputIndex(result.value[j])].FG3A = Fin[2734999, 100000]
          /\ result.value[j].threePointersAttempted = Fin[273, 10]
    /\ \E j \in DOMAIN result.value :
          /\ arg[InputIndex(result.value[j])].FG3A = Fin[2735, 100]
          /\ result.value[j].threePointersAttempted = Fin[274, 10]

C19_PredictionRange ==
    Converted
    => \A j \in DOMAIN result.value : InRange(result.value[j].predictedPER)

\* the output holds a record without per whose prediction is 40, a record
\* whose prediction is 0, and a record made without FG_PCT
C19_Witness ==
    /\ Converted
    /\ \E j \in DOMAIN result.value :
          IsNaN(result.value[j].per) /\ result.value[j].predictedPER = Num(40)
    /\ \E j \in DOMAIN result.value : result.value[j].predictedPER = Num(0)
    /\ \E j \in DOMAIN result.value :
          IsNaN(arg[InputIndex(result.value[j])].FG_PCT)


(***************************************************************************)
(* App: loadNBAData (App.tsx lines 25-54) over the two fetch methods       *)
(***************************************************************************)
\* how many loads the component starts: the one of the mount and the ones of
\* the Retry and Refresh controls
MaxLoads == 2

\* the DataStatus text
getStatusText ==
    IF app.isLoading THEN "Loading NBA data..."
    ELSE IF app.hasError THEN "Connection error"
    ELSE IF app.lastUpdated # -1
         THEN "Updated " \o IntToString((now - app.lastUpdated) \div 60000)
                  \o "m ago"
    ELSE "No data"

\* the Retry controls: the button of DataStatus, rendered under hasError, and
\* the Retry Loading button of renderTabContent, rendered under hasError once
\* the loading view is gone
RetryShown == app.hasError

RetryLoadingShown == ~app.isLoading /\ app.hasError

\* the Refresh button rendered during a load as well
RefreshShownWhileLoading == ~app.hasError

\* the Refresh button of DataStatus
RefreshShown == ~app.isLoading /\ ~app.hasError

\* the effect of lines 21-23 runs once, after the first render
MountPending == app.loads = 0

\* the first lines of loadNBAData without setIsLoading(true)
AppLoadBeginSilent ==
    /\ app.loads < MaxLoads
    /\ MountPending \/ RetryShown \/ RetryLoadingShown \/ RefreshShown
    /\ app' = [app EXCEPT !.pc = "players",
                          !.hasError = FALSE, !.apiFailed = FALSE,
                          !.failedOf = [players |-> FALSE, teams |-> FALSE],
                          !.got = [players |-> NoValue, teams |-> NoValue],
                          !.seen = last, !.loads = @ + 1, !.running = @ + 1]
    /\ UNCHANGED <<playerStatsCache, teamStatsCache, lastFetchTime, now, ticks,
                   inflight, last, fetchedAt, failedLast, arg, result, previous, hist>>

\* lines 21-23 and 25-27: the effect of the mount, or a click on a control that
\* is rendered, calls loadNBAData: setIsLoading(true); setHasError(false).
\* The steps below follow the call that began last
AppLoadBegin ==
    /\ app.loads < MaxLoads
    /\ MountPending \/ RetryShown \/ RetryLoadingShown \/ RefreshShown
    /\ app' = [app EXCEPT !.pc = "players", !.isLoading = TRUE,
                          !.hasError = FALSE, !.apiFailed = FALSE,
                          !.failedOf = [players |-> FALSE, teams |-> FALSE],
                          !.got = [players |-> NoValue, teams |-> NoValue],
                          !.seen = last, !.loads = @ + 1, !.running = @ + 1]
    /\ UNCHANGED <<playerStatsCache, teamStatsCache, lastFetchTime, now, ticks,
                   inflight, last, fetchedAt, failedLast, arg, result, previous, hist>>

\* lines 33-36: Promise.all takes note of a step of one of its two calls: a
\* call that returned settles its promise; after the first call has begun the
\* second one is made, and after that the load awaits both
AppObserve ==
    /\ app.pc \in {"players", "teams", "awaiting"}
    /\ last # app.seen
    /\ app' = [app EXCEPT
                 !.seen = last,
                 !.apiFailed = @ \/ last.failed,
                 !.failedOf[last.kind] = @ \/ last.failed,
                 !.got[last.kind] =
                     IF last.type = "start" THEN @
                     ELSE [threw |-> last.threw, value |-> last.value],
                 !.pc = IF @ = "players" THEN "teams" ELSE "awaiting"]
    /\ UNCHANGED <<playerStatsCache, teamStatsCache, lastFetchTime, now, ticks,
                   inflight, last, fetchedAt, failedLast, arg, result, previous, hist>>

\* lines 37-53: both promises have settled.  try: setPlayers, setTeams,
\* setLastUpdated, setHasError(false); catch, when one of them rejected:
\* setHasError(true), setPlayers([]), setTeams([]); finally:
\* setIsLoading(false)
AppLoadEnd ==
    /\ app.pc = "awaiting"
    /\ app.seen = last
    /\ app.got.players # NoValue
    /\ app.got.teams # NoValue
    /\ app' = IF app.got.players.threw \/ app.got.teams.threw
              THEN [app EXCEPT !.pc = "idle", !.isLoading = FALSE,
                               !.running = @ - 1,
                               !.hasError = TRUE,
                               !.players = <<>>, !.teams = <<>>]
              ELSE [app EXCEPT !.pc = "idle", !.isLoading = FALSE,
                               !.running = @ - 1,
                               !.hasError = FALSE,
                               !.players = app.got.players.value,
                               !.teams = app.got.teams.value,
                               !.lastUpdated = now]
    /\ UNCHANGED <<playerStatsCache, teamStatsCache, lastFetchTime, now, ticks,
                   inflight, last, fetchedAt, failedLast, arg, result, previous, hist>>

InitApp == Init

\* the steps of the component and, in the order of lines 33-36, the steps of
\* the two calls it makes.  The clock advances between two loads and while a
\* load awaits its requests; the statements from the call of loadNBAData to its
\* await run without a pause
NextApp ==
    \/ AppLoadBegin
    \/ AppObserve
    \/ AppLoadEnd
    \/ /\ app.pc = "players"
       /\ app.seen = last
       /\ FetchPlayerDataCached(DefaultSeason)
    \/ /\ app.pc = "players"
       /\ app.seen = last
       /\ FetchPlayerDataStart(DefaultSeason)
    \/ /\ app.pc = "teams"
       /\ app.seen = last
       /\ FetchTeamDataCached(DefaultSeason)
    \/ /\ app.pc = "teams"
       /\ app.seen = last
       /\ FetchTeamDataStart(DefaultSeason)
    \/ /\ app.pc = "awaiting"
       /\ app.seen = last
       /\ \E c \in InFlightOf("players") : \E answer \in PlayerAnswers(c.season) :
             FetchPlayerDataResume(c, answer)
    \/ /\ app.pc = "awaiting"
       /\ app.seen = last
       /\ \E c \in InFlightOf("teams") : \E answer \in TeamAnswers(c.season) :
             FetchTeamDataResume(c, answer)
    \/ /\ app.pc \in {"idle", "awaiting"}
       /\ app.seen = last \/ app.pc = "idle"
       /\ \E d \in TickSteps : Tick(d)

SpecApp == InitApp /\ [][NextApp]_vars

\* a load has ended
LoadEnded == app.pc = "idle" /\ app.loads > 0

\* C20: a load during which an NBA API request failed ends in the error state:
\* hasError is true and isLoading is false, the status reads Connection error
\* and the Retry controls are shown
C20_RetryOnFailure ==
    (LoadEnded /\ app.apiFailed) =>
        /\ app.hasError
        /\ ~app.isLoading
        /\ getStatusText = "Connection error"
        /\ RetryShown
        /\ RetryLoadingShown


\* what the component shows of a kind
Shown(kind) == IF kind = "players" THEN app.players ELSE app.teams

\* the step that ends a load
EndsLoad == app.pc = "awaiting" /\ app'.pc = "idle"

\* C21: a load in which the request for a kind failed leaves the records of
\* that kind that an earlier load put on display in place.
C21_StaleDataKept ==
    [][\A kind \in Kinds :
          (EndsLoad /\ app.failedOf[kind] /\ Shown(kind) # <<>>)
          => Shown(kind)' = Shown(kind)]_vars


\* the steps of a load that has begun: the event loop runs every continuation
\* that is ready, and a request settles (with its answer, or with the axios
\* timeout of makeRequest)
LoadStep ==
    \/ AppObserve
    \/ AppLoadEnd
    \/ /\ app.pc = "players"
       /\ app.seen = last
       /\ \/ FetchPlayerDataCached(DefaultSeason)
          \/ FetchPlayerDataStart(DefaultSeason)
    \/ /\ app.pc = "teams"
       /\ app.seen = last
       /\ \/ FetchTeamDataCached(DefaultSeason)
          \/ FetchTeamDataStart(DefaultSeason)
    \/ /\ app.pc = "awaiting"
       /\ app.seen = last
       /\ \/ \E c \in InFlightOf("players") :
                \E answer \in PlayerAnswers(c.season) :
                   FetchPlayerDataResume(c, answer)
          \/ \E c \in InFlightOf("teams") :
                \E answer \in TeamAnswers(c.season) :
                   FetchTeamDataResume(c, answer)

SpecAppLive == SpecApp /\ WF_vars(LoadStep)

\* a load has begun and has not ended
Loading == app.pc # "idle"

\* both calls of the load have returned
BothSettled == app.got.players # NoValue /\ app.got.teams # NoValue

\* C22: isLoading is true while a load runs, it turns false only once both
\* fetches have settled, and every load that begins ends with isLoading false,
\* whether its requests succeeded or failed.
C22_LoadingIndicator ==
    /\ [](Loading => app.isLoading)
    /\ [][(app.isLoading /\ ~app'.isLoading) => BothSettled]_vars
    /\ (Loading ~> (~Loading /\ ~app.isLoading))

\* a load with a failed request and a load without one have both ended with
\* isLoading false
C22_Witness ==
    /\ LoadEnded
    /\ ~app.isLoading
    /\ app.loads = 2
    /\ app.apiFailed


(***************************************************************************)
(* fetchHistoricalData (lines 134-155) over the two fetch methods          *)
(***************************************************************************)
MaxSeasons == 2

\* the season lists fetchHistoricalData is called with
HistoryInputs == UNION {[1..n -> Seasons] : n \in 0..MaxSeasons}

\* the time the pause of line 148 may take: setTimeout(resolve, 1000) fires
\* after one second at the earliest
DelaySteps == {1000, CACHE_DURATION}

\* lines 135-139: the call begins with the first season of the list
InitHistory ==
    /\ InitService
    /\ arg \in HistoryInputs
    /\ result = NoValue
    /\ previous = NoValue
    /\ app = InitialApp
    /\ hist = [InitialHist EXCEPT !.pc = IF arg = <<>> THEN "return"
                                         ELSE "players",
                                  !.seen = last]

\* lines 141-145: the loop takes note of a step of the fetch call it awaits; a
\* call that returned hands over its records, which are appended to the result
HistObserve ==
    /\ hist.pc \in {"players", "teams"}
    /\ last # hist.seen
    /\ hist' =
         IF last.type = "start" THEN [hist EXCEPT !.seen = last]
         ELSE [hist EXCEPT
                 !.seen = last,
                 !.allPlayers = IF last.kind = "players" /\ ~last.threw
                                THEN @ \o last.value ELSE @,
                 !.allTeams = IF last.kind = "teams" /\ ~last.threw
                              THEN @ \o last.value ELSE @,
                 !.cachedFor[last.kind] =
                     IF last.type = "done" /\ ~last.threw THEN last.season
                     ELSE @,
                 !.served = Append(@,
                     [asked |-> arg[hist.i], kind |-> last.kind,
                      type |-> last.type,
                      for |-> IF last.type = "hit"
                              THEN hist.cachedFor[last.kind]
                              ELSE last.season]),
                 !.pc = IF last.threw THEN "next"
                        ELSE IF @ = "players" THEN "teams" ELSE "delay"]
    /\ UNCHANGED <<playerStatsCache, teamStatsCache, lastFetchTime, now, ticks,
                   inflight, last, fetchedAt, failedLast, arg, result,
                   previous, app>>

\* line 148: the pause behind a season
HistDelay(d) ==
    /\ hist.pc = "delay"
    /\ now' = now + d
    /\ hist' = [hist EXCEPT !.pc = "next"]
    /\ UNCHANGED <<playerStatsCache, teamStatsCache, lastFetchTime, ticks,
                   inflight, last, fetchedAt, failedLast, arg, result,
                   previous, app>>

\* line 139: the loop goes on to the next season, if there is one
HistNextSeason ==
    /\ hist.pc = "next"
    /\ hist' = [hist EXCEPT !.i = @ + 1,
                            !.pc = IF hist.i < Len(arg) THEN "players"
                                   ELSE "return"]
    /\ UNCHANGED <<playerStatsCache, teamStatsCache, lastFetchTime, now, ticks,
                   inflight, last, fetchedAt, failedLast, arg, result,
                   previous, app>>

\* line 154
HistReturn ==
    /\ hist.pc = "return"
    /\ result' = Return([players |-> hist.allPlayers, teams |-> hist.allTeams])
    /\ hist' = [hist EXCEPT !.pc = "done"]
    /\ UNCHANGED <<playerStatsCache, teamStatsCache, lastFetchTime, now, ticks,
                   inflight, last, fetchedAt, failedLast, arg, previous, app>>

\* the steps of the call and, in the order of lines 141-142, the steps of the
\* fetch calls it makes
NextHistory ==
    \/ HistObserve
    \/ \E d \in DelaySteps : HistDelay(d)
    \/ HistNextSeason
    \/ HistReturn
    \/ /\ hist.pc = "players"
       /\ hist.seen = last
       /\ InFlightOf("players") = {}
       /\ FetchPlayerDataCached(arg[hist.i])
    \/ /\ hist.pc = "players"
       /\ hist.seen = last
       /\ InFlightOf("players") = {}
       /\ FetchPlayerDataStart(arg[hist.i])
    \/ /\ hist.pc = "players"
       /\ hist.seen = last
       /\ \E c \in InFlightOf("players") : \E answer \in PlayerAnswers(c.season) :
             FetchPlayerDataResume(c, answer)
    \/ /\ hist.pc = "teams"
       /\ hist.seen = last
       /\ InFlightOf("teams") = {}
       /\ FetchTeamDataCached(arg[hist.i])
    \/ /\ hist.pc = "teams"
       /\ hist.seen = last
       /\ InFlightOf("teams") = {}
       /\ FetchTeamDataStart(arg[hist.i])
    \/ /\ hist.pc = "teams"
       /\ hist.seen = last
       /\ \E c \in InFlightOf("teams") : \E answer \in TeamAnswers(c.season) :
             FetchTeamDataResume(c, answer)

SpecHistory == InitHistory /\ [][NextHistory]_vars

\* C23: every fetch call of fetchHistoricalData returns records that were
\* fetched for the season it was called with, so the result holds, for each
\* season of the list, the records of that season.
C23_SeasonRecords ==
    \A k \in DOMAIN hist.served : hist.served[k].for = hist.served[k].asked


(***************************************************************************)
(* App.getOverviewStats (App.tsx lines 55-77)                              *)
(***************************************************************************)
\* values.reduce((sum, v) => sum + v, 0)
RECURSIVE ReduceSum(_)
ReduceSum(values) ==
    IF values = <<>> THEN Num(0)
    ELSE Add[ReduceSum(SubSeq(values, 1, Len(values) - 1)), values[Len(values)]]

\* teams.reduce((prev, current) =>
\*     prev.winPercentage > current.winPercentage ? prev : current)
\* over a list that is not empty
RECURSIVE ReduceTopTeam(_)
ReduceTopTeam(teams) ==
    IF Len(teams) = 1 THEN teams[1]
    ELSE LET prev    == ReduceTopTeam(SubSeq(teams, 1, Len(teams) - 1))
             current == teams[Len(teams)]
         IN  IF Lt[current.winPercentage, prev.winPercentage] THEN prev
             ELSE current

\* getOverviewStats: reduce without an initial value throws a TypeError on an
\* empty array
getOverviewStats(players, teams) ==
    IF Len(players) = 0
    THEN Return([totalPoints |-> Num(0), avgPER |-> Num(0),
                 topTeam |-> <<"Loading...">>, totalGames |-> Num(0)])
    ELSE IF Len(teams) = 0 THEN Throw
    ELSE LET totalPoints ==
                 ReduceSum([i \in DOMAIN players |-> players[i].points])
             avgPER ==
                 Div[ReduceSum([i \in DOMAIN players |-> players[i].per]),
                     Num(Len(players))]
             topTeam == ReduceTopTeam(teams)
         IN  Return([totalPoints |-> MathRound[totalPoints],
                     avgPER |-> Round1(avgPER),
                     topTeam |-> IF topTeam.name = <<>> THEN <<"N/A">>
                                 ELSE topTeam.name,
                     totalGames |->
                         ReduceSum([i \in DOMAIN teams |->
                                      Add[teams[i].wins, teams[i].losses]])])

\* C24: in every state of the component, getOverviewStats returns a stats
\* object; it throws nothing.
C24_OverviewNoError == ~getOverviewStats(app.players, app.teams).threw


(***************************************************************************)
(* PredictionPanel.calculatePredictionAccuracy (PredictionPanel.tsx 12-20) *)
(***************************************************************************)
\* Math.abs
MathAbs(x) == IF Lt[x, Num(0)] \/ x.k = "ninf" THEN Neg[x] ELSE x

\* line 14-15: 1 - Math.abs(per - predictedPER) / per
AccuracyOf(player) ==
    Sub[Num(1), Div[MathAbs(Sub[player.per, player.predictedPER]), player.per]]

calculatePredictionAccuracy(players) ==
    LET accuracies  == [i \in DOMAIN players |-> AccuracyOf(players[i])]
        avgAccuracy == Div[ReduceSum(accuracies), Num(Len(accuracies))]
    IN  Mul[MathMax[Num(0), MathMin[Num(1), avgAccuracy]], Num(100)]

\* renderTabContent shows the tabs, the predictions tab with its panel among
\* them, once the loading view and the error view are gone
PanelShown == ~app.isLoading /\ ~app.hasError

InPercentRange(x) ==
    /\ IsFinite(x)
    /\ ~Lt[x, Num(0)]
    /\ ~Lt[Num(100), x]

\* C25: for the players list the panel is rendered with,
\* calculatePredictionAccuracy returns a number from 0 to 100.
C25_AccuracyRange ==
    PanelShown => InPercentRange(calculatePredictionAccuracy(app.players))


(***************************************************************************)
(* Further properties of the two fetch methods and of the API client       *)
(***************************************************************************)
\* C26: a call that finds its kind's cached sequence empty makes the API
\* call, whatever the age of lastFetchTime: an empty result is not served
\* from the cache.
C26_EmptyNotCached ==
    [][\A kind \in Kinds :
          (BeginsCall(kind) /\ Len(CacheOf(kind)) = 0)
          => /\ FetchesOnce(kind)
             /\ last'.type # "hit"]_vars

\* a call suspended at the API within CACHE_DURATION of the fetch that
\* answered its kind with no rows
C26_Witness ==
    /\ last.type = "start"
    /\ Len(CacheOf(last.kind)) = 0
    /\ fetchedAt[last.kind] = lastFetchTime
    /\ ~failedLast[last.kind]
    /\ last.at > lastFetchTime
    /\ last.at - lastFetchTime < CACHE_DURATION


\* a body whose resultSets[0] is an object without rowSet
MalformedAnswers == {Answer("noRowSet", <<>>, <<>>)}

\* the columns of the game log endpoints the model keeps
PlayerLogHeaders == <<"SEASON_ID", "PLAYER_ID", "GAME_ID", "PTS">>
TeamLogHeaders   == <<"Team_ID", "Game_ID", "WL", "PTS">>

\* the ids the game logs are asked for
LogIds == {2544, 1610612747}

\* the row sets a game log endpoint may answer with
PlayerLogRowSets(id, season) ==
    {<<>>, <<<<season, id, "0022300001", Num(30)>>,
             <<season, id, "0022300002", Num(0)>> >>}

TeamLogRowSets(id, season) ==
    {<<>>, << <<id, "0022300001", "W", Num(120)>> >>}

\* getPlayerGameLogs, lines 234-256: the body of getPlayerStats over the
\* playergamelog endpoint
getPlayerGameLogs(answer) == Return(RowsOrEmpty(answer))

\* a normal return of undefined
ReturnUndefined == [threw |-> FALSE, value |-> <<>>, undefined |-> TRUE]

\* getTeamGameLogs, lines 258-271: return data.resultSets[0].rowSet, the rows
\* as they came; a throw is caught and answered with []
getTeamGameLogs(answer) ==
    LET data == makeRequest(answer)
    IN  IF data.threw THEN Return(<<>>)
        ELSE IF data.value.status = "noResultSets" THEN Return(<<>>)
        ELSE IF data.value.status = "noRowSet" THEN ReturnUndefined
        ELSE Return(data.value.rowSet)

\* a call of one of the four methods, with the answer its request ends in
ClientCall(method, id, season, answer) ==
    [method |-> method, id |-> id, season |-> season, answer |-> answer]

InitClient ==
    /\ InitService
    /\ result = NoValue
    /\ previous = NoValue
    /\ app = InitialApp
    /\ hist = InitialHist
    /\ \E season \in Seasons :
          \/ \E answer \in PlayerAnswers(season) \cup MalformedAnswers :
                arg = ClientCall("getPlayerStats", 0, season, answer)
          \/ \E answer \in TeamAnswers(season) \cup MalformedAnswers :
                arg = ClientCall("getTeamStats", 0, season, answer)
          \/ \E id \in LogIds :
                \E answer \in Answers(PlayerLogHeaders,
                                      PlayerLogRowSets(id, season))
                                  \cup MalformedAnswers :
                   arg = ClientCall("getPlayerGameLogs", id, season, answer)
          \/ \E id \in LogIds :
                \E answer \in Answers(TeamLogHeaders,
                                      TeamLogRowSets(id, season))
                                  \cup MalformedAnswers :
                   arg = ClientCall("getTeamGameLogs", id, season, answer)

\* the call runs to its return
CallClient ==
    /\ result = NoValue
    /\ result' = CASE arg.method = "getPlayerStats" -> getPlayerStats(arg.answer)
                   [] arg.method = "getTeamStats" -> getTeamStats(arg.answer)
                   [] arg.method = "getPlayerGameLogs" ->
                          getPlayerGameLogs(arg.answer)
                   [] OTHER -> getTeamGameLogs(arg.answer)
    /\ UNCHANGED <<playerStatsCache, teamStatsCache, lastFetchTime, now, ticks,
                   inflight, last, fetchedAt, failedLast, arg, previous, app,
                   hist>>

NextClient == CallClient

SpecClient == InitClient /\ [][NextClient]_vars

\* the value returned is a list
IsList(outcome) == "undefined" \notin DOMAIN outcome

\* C27: each of the four methods of the API client returns normally, and it
\* returns the empty list when its request failed or the body of the answer
\* has not the resultSets shape.
C27_ClientNeverFails ==
    result # NoValue =>
        /\ ~result.threw
        /\ IsList(result)
        /\ arg.answer.status # "ok" => result.value = <<>>


(***************************************************************************)
(* Loads of the component in flight                                        *)
(***************************************************************************)
\* a control that calls loadNBAData is rendered
ControlShown == RetryShown \/ RetryLoadingShown \/ RefreshShown

\* C28: at most one call of loadNBAData is running at any time, and while one
\* is running no control that starts another is rendered: the controls are
\* rendered only while isLoading is false.
C28_OneLoadInFlight ==
    /\ app.running <= 1
    /\ ControlShown => (~app.isLoading /\ ~Loading)

\* a load started with the Refresh button is running, and nothing that would
\* start another is rendered
C28_Witness ==
    /\ app.loads = 2
    /\ app.running = 1
    /\ Loading
    /\ ~ControlShown

====
